---- MODULE Spec2Model ----
(***************************************************************************)
(* News-agent: the hybrid orchestrator of src/main.py,                     *)
(* src/src/agent/news_agent.py, src/src/agent/strategies.py,               *)
(* src/src/utils/executor_manager.py and src/src/tools/mock_news_api.py.   *)
(*                                                                         *)
(* One asyncio event loop runs main(): it enters the ExecutorManager       *)
(* scope, calls NewsArticleAgent.research (gather over the fetches, then   *)
(* gather over the process_article calls, each of which submits one        *)
(* computation to the ProcessPoolExecutor), and leaves the scope through   *)
(* __aexit__, whose shutdown(wait=True) blocks the loop's thread while the *)
(* pool's workers go on.  The loop's ready queue is modelled as a FIFO of  *)
(* callbacks; the pool as a FIFO queue plus the set of running jobs.       *)
(***************************************************************************)
EXTENDS Integers, Sequences, FiniteSets, TLC

\* ------------------------------------------------------------- bounds
MaxItems == 3
MaxWorkers == 2
MaxLateSubmits == 1
MaxExtraClose == 1
MaxLatency == 2
MaxTimeout == 1
MaxContentLen == 4

\* ------------------------------------------------------------- values
None == "None"

\* The i-th key of the catalogue the input lists are drawn from.
Key(i) == <<"http://mock.test/article", i>>

\* The input lists of length n: n distinct keys, and the same list with its
\* last key a repeat of its first.
UrlLists(n) == {[i \in 1..n |-> Key(i)],
                [i \in 1..n |-> IF i = n THEN Key(1) ELSE Key(i)]}

\* An exception object: its kind, the phase and the index of the operation
\* that raised it.  NoExc stands for "no exception".
NoExc == [kind |-> "none", ph |-> "-", idx |-> 0]

ChildExc(ph, i) == [kind |-> "Exception", ph |-> ph, idx |-> i]

CancelledError(ph) == [kind |-> "CancelledError", ph |-> ph, idx |-> 0]

IsExc(x) == "kind" \in DOMAIN x

\* The value of report while research has returned none.
NoReport == [results |-> <<>>, itemCount |-> -1, totalDuration |-> -1]

\* Text is a sequence of words.  mock_news_api.py 20-25: whatever the url, the
\* content holds the words "AI engineering" next to each other.
MockContent(url) == <<"content", "for", url, "breakthrough", "in", "AI",
                      "engineering", "asyncio">>

RawArticleData(url) == [url |-> url, content |-> MockContent(url)]

\* The words the category is decided on (51).
Marker == <<"AI", "engineering">>

\* Python's "marker in content": marker occurs as a contiguous part.
ContainsWord(content, marker) == \E k \in DOMAIN content : content[k] = marker[1]

Contains(content, marker) ==
    \E k \in 1..(Len(content) - Len(marker) + 1) :
        SubSeq(content, k, k + Len(marker) - 1) = marker

cpu_mock_analyze_article_text(raw) ==
    [url      |-> raw.url,
     summary  |-> <<"Summary of ", raw.url,
                    ": AI engineering concepts applied to multi-agent systems.">>,
     category |-> IF Contains(raw.content, Marker)
                  THEN "Technology" ELSE "General",
     entities |-> <<"Gemini", "Pydantic", "ProcessPoolExecutor", "asyncio">>]

\* ----------------------------------------------------------- variables
VARIABLES
    urls,            \* the input key list handed to research
    maxWorkers,      \* ExecutorManager._max_workers
    pc,              \* position of main()
    executor,        \* ExecutorManager._executor: None or "pool"
    poolShutdown,    \* the ProcessPoolExecutor's shutdown flag
    queue,           \* the pool's pending work, in submission order
    jobState,        \* job id -> none/queued/running/ok/err/cancelled
    fetch,           \* fetch task i -> none/scheduled/sleeping/ready/done/failed/cancelled
    proc,            \* process_article task i -> none/scheduled/waiting/ready/done/failed/cancelled
    ready,           \* the event loop's ready queue of callbacks <<kind, phase, i>>
    gather,          \* the gather future research awaits: [state, exc]
    order,           \* indices of the current phase's children in completion order
    fetchResult,     \* fetch task i's result (RawArticleData) or exception
    rawList,         \* all_raw_articles
    procResult,      \* process_article task i's result or exception
    report,          \* the NewsAgentReport research returned, or NoReport
    exitExc,         \* the exception with which research ended (NoExc: none)
    openCount,       \* ProcessPoolExecutor constructions
    shutdownCount,   \* executor.shutdown calls
    aexitCalls,      \* __aexit__ calls
    closeErr,        \* the error the last __aexit__ call raised ("none": none)
    inflightAtClose, \* jobs queued or running when shutdown(wait=True) began
    lateSubmits,     \* submissions attempted through manager.executor by another caller
    lateClosed,      \* the last of them was made after the pool had been closed
    lateErr,         \* the error the last of them raised ("none": none)
    lateRan,         \* the last of them handed its work to an executor
    timed,           \* whether the clock runs; if not, a sleep or a computation
                     \* may end at any step (latencies are arbitrary)
    now,             \* the clock, in ticks
    mock_fetch_delay,   \* AgentConfig.mock_fetch_delay, in ticks
    mock_analysis_time, \* AgentConfig.mock_analysis_time, in ticks
    api_timeout,     \* AgentConfig.api_timeout, in ticks
    start_time,      \* research's start_time
    fetchDue,        \* fetch task i -> the tick its sleep ends
    jobDue,          \* job id -> the tick its computation ends
    fetchCount,      \* index i -> fetches started for urls[i]
    submitCount,     \* index i -> submissions of item i's computation to the pool
    firstFailure,    \* the exception of the child that failed first (NoExc: none)
    output,          \* what main printed of research's outcome: none/report/diagnostic
    probeStage,      \* the strategy probe: idle/key/raw/result
    probeFromFetch,  \* the probe's item was produced by the mock fetch
    probeIn,         \* the probe's RawArticleData
    probeOut         \* the probe's ArticleAnalysisResult

vars == <<urls, maxWorkers, pc, executor, poolShutdown, queue, jobState, fetch,
          proc, ready, gather, order, fetchResult, rawList, procResult, report,
          exitExc, openCount, shutdownCount, aexitCalls, closeErr,
          inflightAtClose, lateSubmits, lateClosed, lateErr, lateRan, timed, now,
          mock_fetch_delay, mock_analysis_time, api_timeout, start_time, fetchDue,
          jobDue, fetchCount, submitCount, firstFailure, output, probeStage,
          probeFromFetch, probeIn, probeOut>>

N == Len(urls)

Idx == 1..N

\* The jobs research submits are numbered by their index; another caller's
\* jobs have negative numbers.
JobIds == (1..MaxItems) \cup {-k : k \in 1..MaxLateSubmits}

Running == {j \in JobIds : jobState[j] = "running"}

poolVars == <<queue, jobState>>
taskVars == <<fetch, proc, ready, gather, order, fetchResult, rawList, procResult>>
lifeVars == <<executor, poolShutdown, openCount, shutdownCount, aexitCalls,
              closeErr, inflightAtClose>>
lateVars == <<lateSubmits, lateClosed, lateErr, lateRan>>
configVars == <<urls, maxWorkers, timed, mock_fetch_delay, mock_analysis_time,
                api_timeout>>
probeVars == <<probeStage, probeFromFetch, probeIn, probeOut>>
\* What no step of main, of its tasks or of the pool changes.
inputVars == <<configVars, now, probeVars>>
dueVars == <<start_time, fetchDue, jobDue>>
countVars == <<fetchCount, submitCount>>

\* The probe's values while there is none.
NoRaw == [url |-> None, content |-> <<>>]

NoResult == [url |-> None, summary |-> <<>>, category |-> None, entities |-> <<>>]

\* ------------------------------------------------------------- Init
\* The state before main's first step, but for the inputs.
InitState ==
    /\ pc = "start"
    /\ executor = None
    /\ poolShutdown = FALSE
    /\ queue = <<>>
    /\ jobState = [j \in JobIds |-> "none"]
    /\ fetch = [i \in 1..Len(urls) |-> "none"]
    /\ proc = [i \in 1..Len(urls) |-> "none"]
    /\ ready = <<>>
    /\ gather = [state |-> "idle", exc |-> NoExc]
    /\ order = <<>>
    /\ fetchResult = [i \in 1..Len(urls) |-> NoExc]
    /\ rawList = <<>>
    /\ procResult = [i \in 1..Len(urls) |-> NoExc]
    /\ report = NoReport
    /\ exitExc = NoExc
    /\ openCount = 0
    /\ shutdownCount = 0
    /\ aexitCalls = 0
    /\ closeErr = "none"
    /\ inflightAtClose = 0
    /\ lateSubmits = 0
    /\ lateClosed = FALSE
    /\ lateErr = "none"
    /\ lateRan = FALSE
    /\ now = 0
    /\ start_time = 0
    /\ fetchDue = [i \in 1..Len(urls) |-> 0]
    /\ jobDue = [j \in JobIds |-> 0]
    /\ fetchCount = [i \in 1..Len(urls) |-> 0]
    /\ submitCount = [i \in 1..Len(urls) |-> 0]
    /\ firstFailure = NoExc
    /\ output = "none"

NoProbe ==
    /\ probeStage = "idle"
    /\ probeFromFetch = FALSE
    /\ probeIn = NoRaw
    /\ probeOut = NoResult

\* Any list of keys, any max_cpu_workers (AgentConfig validates no range);
\* the clock does not run and the delays, which nothing then reads, are 0.
Init ==
    /\ urls \in UNION {UrlLists(n) : n \in 0..MaxItems}
    /\ maxWorkers \in 0..MaxWorkers
    /\ timed = FALSE
    /\ mock_fetch_delay = 0
    /\ mock_analysis_time = 0
    /\ api_timeout = 0
    /\ InitState
    /\ NoProbe

\* ------------------------------------------------- asyncio.gather
\* news_agent.py 46-51 and 56-63: one coroutine per element of the list, all
\* handed to one gather call, which makes a task of each before research
\* suspends.  FirstOnly is the launch-then-await-per-item loop.
FirstOnly(n) == IF n >= 1 THEN {1} ELSE {}

LaunchSet(n) == 1..n

\* Each coroutine becomes one task, whose first step is queued once.
\* StepsTwice starts every operation a second time.
StepsTwice(ph, S) == [i \in 1..(2 * Cardinality(S)) |->
                        <<"step", ph, ((i - 1) % Cardinality(S)) + 1>>]

Steps(ph, S) == [i \in 1..Cardinality(S) |-> <<"step", ph, i>>]

\* gather is called without return_exceptions: a child's exception fails it.
ReturnExceptions(childFailed) == FALSE

GatherFails(childFailed) == childFailed

\* gather's result lists the children's results in argument order, whatever
\* order they completed in (ord).  InCompletionOrder is as_completed's order.
InCompletionOrder(vals, ord) == [j \in 1..Len(ord) |-> vals[ord[j]]]

GatherResults(vals, ord) == [j \in 1..Len(ord) |-> vals[j]]

Finished(st) == st \in {"done", "failed"}

\* gather's result is set when the last of its children has finished.
\* AnyFinished hands each result on as soon as it is there.
AnyFinished(tasks) == TRUE

AllFinished(tasks) == \A k \in DOMAIN tasks : tasks[k] = "none" \/ Finished(tasks[k])

\* gather's _done_callback for a child that finished (failed: with exc), when
\* allFinished tells whether every child has finished by now.  The first
\* exception is the one gather raises; LastFailureWins lets a later one
\* replace it.
LastFailureWins(g, failed, exc, allFinished) ==
    IF GatherFails(failed) /\ g.state \in {"pending", "failed"}
    THEN [state |-> "failed", exc |-> exc]
    ELSE IF g.state # "pending" THEN g
    ELSE IF allFinished THEN [state |-> "done", exc |-> NoExc]
    ELSE g

OnChildDone(g, failed, exc, allFinished) ==
    IF g.state # "pending" THEN g
    ELSE IF GatherFails(failed) THEN [state |-> "failed", exc |-> exc]
    ELSE IF allFinished THEN [state |-> "done", exc |-> NoExc]
    ELSE g

\* The task of child i of phase ph finishes; tasks is the phase's task map
\* after it.  Setting the gather future schedules research's wake-up.
ChildFinish(ph, i, failed, exc, tasks) ==
    LET g == OnChildDone(gather, failed, exc, AllFinished(tasks))
    IN  /\ gather' = g
        /\ order' = Append(order, i)
        /\ firstFailure' = IF failed /\ firstFailure = NoExc THEN exc ELSE firstFailure
        /\ ready' = IF g.state # gather.state
                    THEN Append(Tail(ready), <<"resume", ph, 0>>)
                    ELSE Tail(ready)

\* The gather future over a non-empty list of children, before any finished.
PendingGather == [state |-> "pending", exc |-> NoExc]

\* ------------------------------------------------------------- time
\* Whether what was to last until tick t is over.
Due(t) == ~timed \/ now >= t

\* asyncio.sleep(mock_fetch_delay), mock_news_api.py 17.
SleepEnds(t, delay) == t + delay

\* time.sleep(mock_analysis_time), mock_news_api.py 47.  SlowComputation
\* takes one tick more than it was given.
SlowComputation(t, duration) == t + duration + 1

ComputationEnds(t, duration) == t + duration

\* research awaits its gathers bare: nothing reads api_timeout.  WaitFor is
\* asyncio.wait_for(..., api_timeout) around them.
WaitFor(elapsed, timeout) == elapsed > timeout

TimedOut(elapsed, timeout) == FALSE

\* ------------------------------------------------------------- main's try
\* main 74: "except Exception" catches every failure of research but
\* CancelledError (a BaseException).  CatchesNothing is main without the try.
CatchesNothing(kind) == FALSE

MainCatches(kind) == kind # "CancelledError"

\* What main printed once research ended with exception kind (75).
Printed(kind, before) == IF MainCatches(kind) THEN "diagnostic" ELSE before

\* Where main is after the scope was left with exception kind ("none": none):
\* at its last line (77), or ended by the exception.
ExitState(kind) ==
    IF kind = "none" \/ MainCatches(kind) THEN "finished"
    ELSE IF kind = "CancelledError" THEN "cancelled"
    ELSE "uncaught"

\* ------------------------------------------------- ExecutorManager
\* ProcessPoolExecutor(max_workers=w) raises ValueError for w <= 0.
\* PoolInitUnchecked takes any w.
PoolInitUnchecked(w) == "ok"

PoolInit(w) == IF w <= 0 THEN "ValueError" ELSE "ok"

\* The executor property (27-32): RuntimeError unless the pool is allocated.
ExecutorUnchecked(ex) == "ok"

ExecutorProperty(ex) == IF ex = None THEN "RuntimeError" ELSE "ok"

\* __aexit__ 21: shutdown is called iff _executor is set, whatever the exit.
AexitAlways(ex, excKind) == TRUE

AexitOnlyOnSuccess(ex, excKind) == ex # None /\ excKind = "none"

AexitGuard(ex, excKind) == ex # None

\* shutdown(wait=True), 23: cancel_futures is left False, no queued work is
\* cancelled.  CancelFutures is shutdown(wait=True, cancel_futures=True).
CancelFutures(q) == {q[k] : k \in DOMAIN q}

ShutdownCancels(q) == {}

\* shutdown(wait=True) returns once no submitted work is queued or running.
ShutdownNoWait == TRUE

ShutdownReturns == queue = <<>> /\ Running = {}

\* The pool runs at most max_workers computations at a time.  Unbounded
\* runs all it is given, OneAtATime one whatever max_workers is, and
\* KeepsOneIdle never uses its last worker.
Unbounded == TRUE

KeepsOneIdle == Cardinality(Running) + 1 < maxWorkers

OneAtATime == Running = {} /\ maxWorkers >= 1

CanDispatch == Cardinality(Running) < maxWorkers

\* NewsAgentReport.total_articles_processed = len(urls).
DistinctCount(u) == Cardinality({u[i] : i \in DOMAIN u})

ItemCount(u) == Len(u)

\* ------------------------------------------------------------- main
\* main 38: async with ExecutorManager(...) -> __aenter__.
Enter ==
    /\ pc = "start"
    /\ IF PoolInit(maxWorkers) = "ok"
       THEN /\ executor' = "pool"
            /\ openCount' = openCount + 1
            /\ pc' = "entered"
            /\ UNCHANGED exitExc
       ELSE /\ exitExc' = [kind |-> PoolInit(maxWorkers), ph |-> "open", idx |-> 0]
            /\ pc' = "crashed"
            /\ UNCHANGED <<executor, openCount>>
    /\ UNCHANGED <<inputVars, poolVars, taskVars, lateVars, report, poolShutdown,
                   shutdownCount, aexitCalls, closeErr, inflightAtClose, dueVars,
                   countVars, firstFailure, output>>

\* research 41-51: the fetch coroutines, gather, and the suspension on it.
\* For an empty list both gathers are done at once: research does not
\* suspend and returns its (empty) report in the same step (41-75).
ResearchStart ==
    /\ pc = "entered"
    /\ start_time' = now
    /\ IF N = 0
       THEN /\ report' = [results |-> <<>>, itemCount |-> ItemCount(urls),
                          totalDuration |-> now - start_time']
            /\ output' = "report"
            /\ pc' = "exiting"
            /\ UNCHANGED <<fetch, gather, ready, order>>
       ELSE /\ fetch' = [i \in Idx |-> IF i \in LaunchSet(N) THEN "scheduled" ELSE "none"]
            /\ gather' = PendingGather
            /\ ready' = Steps("A", LaunchSet(N))
            /\ order' = <<>>
            /\ pc' = "awaitA"
            /\ UNCHANGED <<report, output>>
    /\ UNCHANGED <<inputVars, poolVars, lifeVars, lateVars, proc, fetchResult,
                   rawList, procResult, exitExc, fetchDue, jobDue, countVars,
                   firstFailure>>

\* async_mock_fetch_article_content 15-17: the task's first step, up to the sleep.
FetchStep(i) ==
    /\ pc = "awaitA"
    /\ ready # <<>> /\ Head(ready) = <<"step", "A", i>>
    /\ fetch' = [fetch EXCEPT ![i] = "sleeping"]
    /\ fetchDue' = [fetchDue EXCEPT ![i] = SleepEnds(now, mock_fetch_delay)]
    /\ fetchCount' = [fetchCount EXCEPT ![i] = @ + 1]
    /\ ready' = Tail(ready)
    /\ UNCHANGED <<inputVars, poolVars, lifeVars, lateVars, pc, proc, gather, order,
                   fetchResult, rawList, procResult, report, exitExc, start_time,
                   jobDue, submitCount, firstFailure, output>>

\* The sleep of fetch i is over: its wake-up is queued.
TimerFire(i) ==
    /\ pc = "awaitA"
    /\ fetch[i] = "sleeping"
    /\ Due(fetchDue[i])
    /\ fetch' = [fetch EXCEPT ![i] = "ready"]
    /\ ready' = Append(ready, <<"wake", "A", i>>)
    /\ UNCHANGED <<inputVars, poolVars, lifeVars, lateVars, pc, proc, gather, order,
                   fetchResult, rawList, procResult, report, exitExc, dueVars,
                   countVars, firstFailure, output>>

\* async_mock_fetch_article_content 19-33: the fetch returns its RawArticleData,
\* or raises (RawArticleData validates its fields); gather is told.
FetchWake(i) ==
    /\ pc = "awaitA"
    /\ ready # <<>> /\ Head(ready) = <<"wake", "A", i>>
    /\ \E ok \in BOOLEAN :
         LET tasks == [fetch EXCEPT ![i] = IF ok THEN "done" ELSE "failed"]
             res == IF ok THEN RawArticleData(urls[i]) ELSE ChildExc("A", i)
         IN  /\ fetch' = tasks
             /\ fetchResult' = [fetchResult EXCEPT ![i] = res]
             /\ ChildFinish("A", i, ~ok, res, tasks)
    /\ UNCHANGED <<inputVars, poolVars, lifeVars, lateVars, pc, proc, rawList,
                   procResult, report, exitExc, dueVars, countVars, output>>

\* research 51-63: resumed by the fetch gather.  Its exception propagates (no
\* try in research) to main's except; else the process_article coroutines
\* are made (57 reads the executor property once per item) and gathered.
\* Once research has ended, the loop runs no callback of its tasks any more
\* (its thread goes into shutdown, then main returns): the ready queue and
\* the completion order are dropped.
ResumeA ==
    /\ pc = "awaitA"
    /\ ready # <<>> /\ Head(ready) = <<"resume", "A", 0>>
    /\ LET raws == GatherResults(fetchResult, order)
           S == LaunchSet(Len(raws))
       IN  IF gather.state = "failed"
           THEN /\ exitExc' = gather.exc
                /\ output' = Printed(gather.exc.kind, output)
                /\ pc' = "exiting"
                /\ ready' = <<>>
                /\ order' = <<>>
                /\ UNCHANGED <<proc, gather, rawList>>
           ELSE IF ExecutorProperty(executor) # "ok"
           THEN /\ exitExc' = [kind |-> ExecutorProperty(executor), ph |-> "B", idx |-> 0]
                /\ output' = Printed(ExecutorProperty(executor), output)
                /\ pc' = "exiting"
                /\ ready' = <<>>
                /\ order' = <<>>
                /\ rawList' = raws
                /\ UNCHANGED <<proc, gather>>
           ELSE /\ rawList' = raws
                /\ proc' = [i \in Idx |-> IF i \in S THEN "scheduled" ELSE "none"]
                /\ gather' = PendingGather
                /\ order' = <<>>
                /\ ready' = Tail(ready) \o Steps("B", S)
                /\ pc' = "awaitB"
                /\ UNCHANGED <<exitExc, output>>
    /\ UNCHANGED <<inputVars, poolVars, lifeVars, lateVars, fetch, fetchResult,
                   procResult, report, dueVars, countVars, firstFailure>>

\* strategies.py 39-44, executor_manager.py 44-49: the first step of
\* process_article submits the computation to the pool and suspends on its
\* future.  A pool that was shut down refuses the submission (RuntimeError).
ProcStep(i) ==
    /\ pc = "awaitB"
    /\ ready # <<>> /\ Head(ready) = <<"step", "B", i>>
    /\ IF poolShutdown
       THEN LET tasks == [proc EXCEPT ![i] = "failed"]
                exc == [kind |-> "RuntimeError", ph |-> "B", idx |-> i]
            IN  /\ proc' = tasks
                /\ procResult' = [procResult EXCEPT ![i] = exc]
                /\ ChildFinish("B", i, TRUE, exc, tasks)
                /\ UNCHANGED <<poolVars, submitCount>>
       ELSE /\ proc' = [proc EXCEPT ![i] = "waiting"]
            /\ queue' = Append(queue, i)
            /\ jobState' = [jobState EXCEPT ![i] = "queued"]
            /\ submitCount' = [submitCount EXCEPT ![i] = @ + 1]
            /\ ready' = Tail(ready)
            /\ UNCHANGED <<gather, order, procResult, firstFailure>>
    /\ UNCHANGED <<inputVars, lifeVars, lateVars, pc, fetch, fetchResult, rawList,
                   report, exitExc, dueVars, fetchCount, output>>

\* The pool hands its oldest queued job to a free worker.
Dispatch ==
    /\ queue # <<>>
    /\ CanDispatch
    /\ jobState' = [jobState EXCEPT ![Head(queue)] = "running"]
    /\ jobDue' = [jobDue EXCEPT ![Head(queue)] = ComputationEnds(now, mock_analysis_time)]
    /\ queue' = Tail(queue)
    /\ UNCHANGED <<inputVars, taskVars, lifeVars, lateVars, pc, report, exitExc,
                   start_time, fetchDue, countVars, firstFailure, output>>

\* The outcomes job j may have: cpu_mock_analyze_article_text returns or
\* raises, and raises on an argument that is no RawArticleData.  The outcome
\* of another caller's job is not told apart (nothing here reads it).
Outcomes(j) ==
    IF j \notin Idx THEN {TRUE}
    ELSE IF j \in DOMAIN rawList /\ IsExc(rawList[j]) THEN {FALSE}
    ELSE BOOLEAN

\* A worker finishes job j.  The job's future wakes the task waiting on it,
\* through the loop's ready queue.
Finish(j) ==
    /\ j \in Running
    /\ Due(jobDue[j])
    /\ \E ok \in Outcomes(j) :
         jobState' = [jobState EXCEPT ![j] = IF ok THEN "ok" ELSE "err"]
    /\ IF pc = "awaitB" /\ j \in Idx /\ proc[j] = "waiting"
       THEN /\ proc' = [proc EXCEPT ![j] = "ready"]
            /\ ready' = Append(ready, <<"wake", "B", j>>)
       ELSE UNCHANGED <<proc, ready>>
    /\ UNCHANGED <<inputVars, lifeVars, lateVars, pc, queue, fetch, gather, order,
                   fetchResult, rawList, procResult, report, exitExc, dueVars,
                   countVars, firstFailure, output>>

\* run_cpu_task_in_executor 49: awaiting the job's future returns the job's
\* result, or raises the exception the job raised.
SwallowWorkerError(js) == TRUE

AwaitResult(js) == js = "ok"

\* process_article resumes with its job's result or exception; gather is told.
ProcWake(i) ==
    /\ pc = "awaitB"
    /\ ready # <<>> /\ Head(ready) = <<"wake", "B", i>>
    /\ LET ok == AwaitResult(jobState[i])
           tasks == [proc EXCEPT ![i] = IF ok THEN "done" ELSE "failed"]
           res == IF ok THEN cpu_mock_analyze_article_text(rawList[i])
                  ELSE ChildExc("B", i)
       IN  /\ proc' = tasks
           /\ procResult' = [procResult EXCEPT ![i] = res]
           /\ ChildFinish("B", i, ~ok, res, tasks)
    /\ UNCHANGED <<inputVars, poolVars, lifeVars, lateVars, pc, fetch, fetchResult,
                   rawList, report, exitExc, dueVars, countVars, output>>

\* research 61-75: resumed by the processing gather.  Its exception propagates
\* to main's except; else the report is built and returned, and main prints it.
ResumeB ==
    /\ pc = "awaitB"
    /\ ready # <<>> /\ Head(ready) = <<"resume", "B", 0>>
    /\ IF gather.state = "failed"
       THEN /\ exitExc' = gather.exc
            /\ output' = Printed(gather.exc.kind, output)
            /\ order' = <<>>
            /\ UNCHANGED report
       ELSE /\ report' = [results       |-> GatherResults(procResult, order),
                          itemCount     |-> ItemCount(urls),
                          totalDuration |-> now - start_time]
            /\ output' = "report"
            /\ UNCHANGED <<exitExc, order>>
    /\ pc' = "exiting"
    /\ ready' = <<>>
    /\ UNCHANGED <<inputVars, poolVars, lifeVars, lateVars, fetch, proc, gather,
                   fetchResult, rawList, procResult, dueVars, countVars, firstFailure>>

\* main's task is cancelled while research is suspended: gather cancels its
\* children, a cancelled process_article cancels its pool future (which takes
\* effect only for a job the pool has not yet picked up: cancelledJobs), and
\* CancelledError, which "except Exception" does not catch, leaves the scope.
Cancel ==
    /\ pc \in {"awaitA", "awaitB"}
    /\ \E cancelledJobs \in SUBSET {j \in Idx : jobState[j] = "queued"} :
         /\ jobState' = [j \in JobIds |->
                           IF j \in cancelledJobs THEN "cancelled" ELSE jobState[j]]
         /\ queue' = SelectSeq(queue, LAMBDA j : j \notin cancelledJobs)
    /\ fetch' = [i \in Idx |-> IF fetch[i] = "none" \/ Finished(fetch[i])
                               THEN fetch[i] ELSE "cancelled"]
    /\ proc' = [i \in Idx |-> IF proc[i] = "none" \/ Finished(proc[i])
                              THEN proc[i] ELSE "cancelled"]
    /\ gather' = [state |-> "cancelled", exc |-> NoExc]
    /\ ready' = <<>>
    /\ order' = <<>>
    /\ exitExc' = CancelledError(IF pc = "awaitA" THEN "A" ELSE "B")
    /\ pc' = "exiting"
    /\ UNCHANGED <<inputVars, lifeVars, lateVars, fetchResult, rawList,
                   procResult, report, dueVars, countVars, firstFailure, output>>

\* __aexit__ 19-23, at the end of main's async with block: shutdown(wait=True)
\* is called and blocks the loop's thread.
BeginClose ==
    /\ pc = "exiting"
    /\ aexitCalls' = aexitCalls + 1
    /\ IF AexitGuard(executor, exitExc.kind)
       THEN IF executor = None
            THEN /\ closeErr' = "AttributeError"
                 /\ pc' = "finished"
                 /\ UNCHANGED <<poolShutdown, shutdownCount, inflightAtClose, poolVars>>
            ELSE /\ poolShutdown' = TRUE
                 /\ shutdownCount' = shutdownCount + 1
                 /\ inflightAtClose' = Len(queue) + Cardinality(Running)
                 /\ jobState' = [j \in JobIds |-> IF j \in ShutdownCancels(queue)
                                                  THEN "cancelled" ELSE jobState[j]]
                 /\ queue' = SelectSeq(queue, LAMBDA j : j \notin ShutdownCancels(queue))
                 /\ closeErr' = "none"
                 /\ pc' = "closing"
       ELSE /\ closeErr' = "none"
            /\ pc' = ExitState(exitExc.kind)
            /\ UNCHANGED <<poolShutdown, shutdownCount, inflightAtClose, poolVars>>
    /\ UNCHANGED <<inputVars, taskVars, lateVars, executor, openCount,
                   report, exitExc, dueVars, countVars, firstFailure, output>>

\* __aexit__ 23-25 and main 77: shutdown returns, _executor is dropped, and
\* main finishes (or the CancelledError goes on to main's caller).
EndClose ==
    /\ pc = "closing"
    /\ ShutdownReturns
    /\ executor' = None
    /\ pc' = ExitState(exitExc.kind)
    /\ UNCHANGED <<inputVars, poolVars, taskVars, lateVars, poolShutdown, openCount,
                   shutdownCount, aexitCalls, closeErr, inflightAtClose, report, exitExc,
                   dueVars, countVars, firstFailure, output>>

\* __aexit__ called again on the manager after the scope was left.
ExtraClose ==
    /\ pc \in {"finished", "cancelled"}
    /\ aexitCalls <= MaxExtraClose
    /\ aexitCalls' = aexitCalls + 1
    /\ IF AexitGuard(executor, "none")
       THEN IF executor = None
            THEN /\ closeErr' = "AttributeError"
                 /\ UNCHANGED <<executor, poolShutdown, shutdownCount>>
            ELSE /\ ShutdownReturns
                 /\ poolShutdown' = TRUE
                 /\ shutdownCount' = shutdownCount + 1
                 /\ executor' = None
                 /\ closeErr' = "none"
       ELSE /\ closeErr' = "none"
            /\ UNCHANGED <<executor, poolShutdown, shutdownCount>>
    /\ UNCHANGED <<inputVars, poolVars, taskVars, lateVars, pc, openCount,
                   inflightAtClose, report, exitExc, dueVars, countVars, firstFailure,
                   output>>

\* Another caller submits work through the manager while main does not hold
\* the loop (before the scope, while research is suspended, after the scope):
\* run_cpu_task_in_executor(manager.executor, ...).  The property raises
\* unless the pool is allocated; run_in_executor given None would use the
\* loop's default executor; a pool that was shut down refuses the work.
SubmitViaManager ==
    /\ pc \in {"start", "awaitA", "awaitB", "finished", "cancelled"}
    /\ lateSubmits < MaxLateSubmits
    /\ lateSubmits' = lateSubmits + 1
    /\ lateClosed' = (shutdownCount > 0)
    /\ IF ExecutorProperty(executor) # "ok"
       THEN /\ lateErr' = ExecutorProperty(executor)
            /\ lateRan' = FALSE
            /\ UNCHANGED poolVars
       ELSE IF executor = None
       THEN /\ lateErr' = "none"
            /\ lateRan' = TRUE
            /\ UNCHANGED poolVars
       ELSE IF poolShutdown
       THEN /\ lateErr' = "RuntimeError"
            /\ lateRan' = FALSE
            /\ UNCHANGED poolVars
       ELSE /\ lateErr' = "none"
            /\ lateRan' = TRUE
            /\ queue' = Append(queue, -(lateSubmits + 1))
            /\ jobState' = [jobState EXCEPT ![-(lateSubmits + 1)] = "queued"]
    /\ UNCHANGED <<inputVars, taskVars, lifeVars, pc, report, exitExc, dueVars,
                   countVars, firstFailure, output>>

Next ==
    \/ Enter
    \/ ResearchStart
    \/ \E i \in Idx : FetchStep(i)
    \/ \E i \in Idx : TimerFire(i)
    \/ \E i \in Idx : FetchWake(i)
    \/ ResumeA
    \/ \E i \in Idx : ProcStep(i)
    \/ Dispatch
    \/ \E j \in JobIds : Finish(j)
    \/ \E i \in Idx : ProcWake(i)
    \/ ResumeB
    \/ Cancel
    \/ BeginClose
    \/ EndClose
    \/ ExtraClose
    \/ SubmitViaManager

Spec == Init /\ [][Next]_vars

\* ------------------------------------------------------- the timed run
\* main on its own, with a clock: every sleep lasts mock_fetch_delay ticks,
\* every computation mock_analysis_time ticks, and a step of the loop or of
\* the pool takes no time.
InitTimed ==
    /\ urls \in {[i \in 1..n |-> Key(i)] : n \in 0..MaxItems}
    /\ maxWorkers \in 0..MaxWorkers
    /\ timed = TRUE
    /\ mock_fetch_delay \in 0..MaxLatency
    /\ mock_analysis_time \in 0..MaxLatency
    /\ api_timeout \in 0..MaxTimeout
    /\ InitState
    /\ NoProbe

\* Something can be done without waiting.
Urgent ==
    \/ pc \in {"start", "entered", "exiting"}
    \/ pc \in {"awaitA", "awaitB"} /\ ready # <<>>
    \/ pc = "awaitA" /\ \E i \in Idx : fetch[i] = "sleeping" /\ Due(fetchDue[i])
    \/ queue # <<>> /\ CanDispatch
    \/ \E j \in Running : Due(jobDue[j])
    \/ pc = "closing" /\ ShutdownReturns

\* A tick passes while the loop sleeps in its selector, or the loop's thread
\* in shutdown(wait=True), and a timer or a worker is still to finish.
Tick ==
    /\ timed
    /\ ~Urgent
    /\ \/ pc = "awaitA" /\ \E i \in Idx : fetch[i] = "sleeping"
       \/ Running # {}
    /\ now' = now + 1
    /\ IF pc \in {"awaitA", "awaitB"} /\ TimedOut(now' - start_time, api_timeout)
       THEN /\ exitExc' = [kind |-> "TimeoutError",
                           ph |-> IF pc = "awaitA" THEN "A" ELSE "B", idx |-> 0]
            /\ output' = Printed("TimeoutError", output)
            /\ pc' = "exiting"
            /\ fetch' = [i \in Idx |-> IF fetch[i] = "none" \/ Finished(fetch[i])
                                       THEN fetch[i] ELSE "cancelled"]
            /\ proc' = [i \in Idx |-> IF proc[i] = "none" \/ Finished(proc[i])
                                      THEN proc[i] ELSE "cancelled"]
            /\ gather' = [state |-> "cancelled", exc |-> NoExc]
       ELSE UNCHANGED <<exitExc, output, pc, fetch, proc, gather>>
    /\ UNCHANGED <<configVars, probeVars, poolVars, lifeVars, lateVars, dueVars,
                   countVars, firstFailure, ready, order, fetchResult, rawList,
                   procResult, report>>

NextTimed ==
    \/ Enter
    \/ ResearchStart
    \/ \E i \in Idx : FetchStep(i)
    \/ \E i \in Idx : TimerFire(i)
    \/ \E i \in Idx : FetchWake(i)
    \/ ResumeA
    \/ \E i \in Idx : ProcStep(i)
    \/ Dispatch
    \/ \E j \in JobIds : Finish(j)
    \/ \E i \in Idx : ProcWake(i)
    \/ ResumeB
    \/ BeginClose
    \/ EndClose
    \/ Tick

SpecTimed == InitTimed /\ [][NextTimed]_vars

\* ------------------------------------------------- the strategy alone
\* One item goes through the mock fetch and the analysis, or a RawArticleData
\* with any content goes through the analysis; main does not run.
Words == {"AI", "engineering", "asyncio"}

Payloads == UNION {[1..n -> Words] : n \in 0..MaxContentLen}

InitStrategy ==
    /\ urls = <<>>
    /\ maxWorkers = 1
    /\ timed = FALSE
    /\ mock_fetch_delay = 0
    /\ mock_analysis_time = 0
    /\ api_timeout = 0
    /\ InitState
    /\ probeFromFetch = FALSE
    /\ probeOut = NoResult
    /\ \/ /\ probeStage = "key"
          /\ probeIn \in {[url |-> Key(k), content |-> <<>>] : k \in 1..MaxItems}
       \/ /\ probeStage = "raw"
          /\ probeIn \in {[url |-> Key(k), content |-> c] :
                              k \in 1..MaxItems, c \in Payloads}

\* async_mock_fetch_article_content 19-33 for the probe's key.
ProbeFetch ==
    /\ probeStage = "key"
    /\ probeIn' = RawArticleData(probeIn.url)
    /\ probeFromFetch' = TRUE
    /\ probeStage' = "raw"
    /\ UNCHANGED <<configVars, now, poolVars, taskVars, lifeVars, lateVars, dueVars,
                   countVars, firstFailure, output, pc, report, exitExc, probeOut>>

\* cpu_mock_analyze_article_text 49-63 on the probe's RawArticleData.
ProbeAnalyze ==
    /\ probeStage = "raw"
    /\ probeOut' = cpu_mock_analyze_article_text(probeIn)
    /\ probeStage' = "result"
    /\ UNCHANGED <<configVars, now, poolVars, taskVars, lifeVars, lateVars, dueVars,
                   countVars, firstFailure, output, pc, report, exitExc, probeIn,
                   probeFromFetch>>

NextStrategy ==
    \/ ProbeFetch
    \/ ProbeAnalyze

SpecStrategy == InitStrategy /\ [][NextStrategy]_vars

\* ------------------------------------------------- the run to its end
\* main on its own, as far as it gets: the loop runs the callbacks it has
\* queued, a sleep ends, the pool hands queued work to a free worker, a
\* computation ends.  Latencies are arbitrary (the clock does not run).
InitLive ==
    /\ urls \in {[i \in 1..n |-> Key(i)] : n \in 0..MaxItems}
    /\ maxWorkers \in 0..MaxWorkers
    /\ timed = FALSE
    /\ mock_fetch_delay = 0
    /\ mock_analysis_time = 0
    /\ api_timeout = 0
    /\ InitState
    /\ NoProbe

\* The steps of the event loop's thread: main, research and their tasks.
LoopStep ==
    \/ Enter
    \/ ResearchStart
    \/ \E i \in Idx : FetchStep(i)
    \/ \E i \in Idx : FetchWake(i)
    \/ ResumeA
    \/ \E i \in Idx : ProcStep(i)
    \/ \E i \in Idx : ProcWake(i)
    \/ ResumeB
    \/ BeginClose
    \/ EndClose

\* The loop's timers.
TimerStep == \E i \in Idx : TimerFire(i)

\* The pool's workers.
WorkerStep == \E j \in JobIds : Finish(j)

NextLive ==
    \/ LoopStep
    \/ TimerStep
    \/ Dispatch
    \/ WorkerStep

\* The loop goes on while a callback is ready, a timer that is due fires, the
\* pool's queue is served while a worker is free, and a worker ends its job.
Fairness ==
    /\ WF_vars(LoopStep)
    /\ WF_vars(TimerStep)
    /\ WF_vars(Dispatch)
    /\ WF_vars(WorkerStep)

SpecLive == InitLive /\ [][NextLive]_vars /\ Fairness

\* ------------------------------------------------------------ claims
ResearchEnded == pc \in {"exiting", "closing", "finished", "cancelled"}

ScopeLeft == pc \in {"finished", "cancelled"}

NoStepPending == \A k \in DOMAIN ready : ready[k][1] # "step"

\* C1: a returned report lists the results in input order, results[i].key =
\* items[i] for every i, whatever order the fetches and the pool's
\* computations completed in.
C1_InputOrder ==
    report # NoReport =>
        \A i \in DOMAIN report.results : i \in Idx /\ report.results[i].url = urls[i]

\* C1 witness: a report whose computations completed in another order than
\* the input's, on keys that tell the two orders apart.
C1_Witness ==
    /\ report # NoReport
    /\ N >= 2
    /\ \E i \in Idx : order[i] # i /\ urls[order[i]] # urls[i]
    /\ \A i \in Idx : report.results[i].url = urls[i]

\* C2: for a non-empty input list of length N, a returned report has
\* itemCount = N and N results.
C2_Counts ==
    (report # NoReport /\ N >= 1) =>
        /\ report.itemCount = N
        /\ Len(report.results) = N

\* C2 witness: a report for more items than workers, with a repeated key.
C2_Witness ==
    /\ report # NoReport
    /\ N > maxWorkers
    /\ N >= 2 /\ urls[N] = urls[1]
    /\ report.itemCount = N

\* C3: at most maxWorkers computations run on the pool at a time; the other
\* submissions are queued, not running.
C3_BoundedPool ==
    /\ Cardinality(Running) <= maxWorkers
    /\ \A k \in DOMAIN queue : jobState[queue[k]] = "queued"

\* C3 witness: every worker busy and a submission waiting in the queue.
C3_Witness ==
    /\ maxWorkers >= 1
    /\ Cardinality(Running) = maxWorkers
    /\ queue # <<>>

C5_FetchErrorKind ==
    (ResearchEnded /\ exitExc.kind # "CancelledError"
        /\ \E i \in Idx : fetch[i] = "failed") =>
        /\ exitExc.kind = "FetchError"
        /\ report = NoReport

\* C5 as amended: a failed fetch makes research fail with no report; the
\* error research raises is a failed fetch's own exception, not wrapped (or
\* CancelledError, when the call is cancelled before it resumes).
C5_FetchFailurePropagates ==
    (ResearchEnded /\ \E i \in Idx : fetch[i] = "failed") =>
        /\ report = NoReport
        /\ \/ exitExc.kind = "CancelledError"
           \/ \E k \in Idx : /\ fetch[k] = "failed"
                             /\ exitExc = fetchResult[k]
                             /\ exitExc = ChildExc("A", k)

\* C5 witness: main has finished after a fetch failed while a sibling fetch
\* had completed.
C5_Witness ==
    /\ pc = "finished"
    /\ exitExc.kind = "Exception" /\ exitExc.ph = "A"
    /\ \E i \in Idx : fetch[i] = "failed"
    /\ \E i \in Idx : fetch[i] = "done"

\* C6 as stated: a failed processing call makes research fail with a
\* ProcessingError (that wraps the worker's failure) and no report.
C6_ProcessingErrorKind ==
    (ResearchEnded /\ exitExc.kind # "CancelledError"
        /\ \E i \in Idx : proc[i] = "failed") =>
        /\ exitExc.kind = "ProcessingError"
        /\ report = NoReport

\* C6 as amended: a failed processing call makes research fail with no
\* report; the error research raises is the worker's own exception, not
\* wrapped (or CancelledError, when the call is cancelled before it resumes);
\* a report is returned only when every computation succeeded.
C6_WorkerFailurePropagates ==
    /\ (ResearchEnded /\ \E i \in Idx : proc[i] = "failed") =>
         /\ report = NoReport
         /\ \/ exitExc.kind = "CancelledError"
            \/ \E k \in Idx : /\ proc[k] = "failed"
                              /\ jobState[k] = "err"
                              /\ exitExc = procResult[k]
                              /\ exitExc = ChildExc("B", k)
    /\ report # NoReport => \A i \in Idx : jobState[i] = "ok"

\* C6 witness: main has finished after a computation failed on the pool while
\* a sibling computation had succeeded.
C6_Witness ==
    /\ pc = "finished"
    /\ exitExc.kind = "Exception" /\ exitExc.ph = "B"
    /\ \E i \in Idx : proc[i] = "failed" /\ jobState[i] = "err"
    /\ \E i \in Idx : jobState[i] = "ok"

\* C7: a session that enters the pool scope opens the pool once and closes
\* it once on every way out (research returned, failed in Phase A or B, was
\* cancelled); no way out leaves the pool open.
C7_OpenOnceCloseOnce ==
    /\ openCount <= 1
    /\ shutdownCount <= openCount
    /\ ScopeLeft =>
         /\ openCount = 1
         /\ shutdownCount = 1
         /\ poolShutdown
         /\ executor = None
    /\ (openCount = 1 /\ ~ScopeLeft) => executor = "pool"

\* C7 witness: the scope was left by a failure of Phase B, with work still
\* on the pool when the close began.
C7_Witness ==
    /\ pc = "finished"
    /\ exitExc.ph = "B" /\ exitExc.kind = "Exception"
    /\ inflightAtClose > 0
    /\ shutdownCount = 1

\* C8 as stated: a submission attempted after the close fails with
\* PoolClosedError and runs no work.
C8_PoolClosedErrorKind ==
    lateClosed => (lateErr = "PoolClosedError" /\ ~lateRan)

\* C8 as amended: a submission attempted through the manager after the close
\* fails with RuntimeError (the executor property's error, the same as
\* before the pool is opened) and no work is queued or run.
C8_SubmitAfterCloseFails ==
    lateClosed =>
        /\ lateErr = "RuntimeError"
        /\ ~lateRan
        /\ queue = <<>>
        /\ Running = {}

\* C8 witness: a submission was attempted after the scope had closed a pool
\* that had run work.
C8_Witness ==
    /\ lateClosed
    /\ lateSubmits >= 1
    /\ \E j \in JobIds : jobState[j] = "ok"

\* C9: close is idempotent: no __aexit__ call raises, with or without work
\* submitted, and a second call leaves the pool closed without shutting it
\* down again.
C9_CloseIdempotent ==
    /\ closeErr = "none"
    /\ aexitCalls >= 2 =>
         /\ executor = None
         /\ poolShutdown
         /\ shutdownCount = 1

\* C9 witness: __aexit__ was called twice on a pool that never got work.
C9_Witness ==
    /\ aexitCalls >= 2
    /\ openCount = 1
    /\ \A j \in JobIds : jobState[j] = "none"
    /\ closeErr = "none"

\* C10: close returns, and the pool is released, only when no submitted
\* computation is queued or running: every submission has then completed,
\* failed or been cancelled.
C10_CloseWaits ==
    (openCount = 1 /\ executor = None) =>
        /\ queue = <<>>
        /\ \A j \in JobIds : jobState[j] \in {"none", "ok", "err", "cancelled"}

\* C10 witness: the close began with several computations queued or running
\* and has returned.
C10_Witness ==
    /\ ScopeLeft
    /\ inflightAtClose >= 2
    /\ executor = None

\* C11 as stated: opening the pool with maxWorkers <= 0 fails with error kind
\* PoolInitError and leaves no pool allocated.
C11_PoolInitErrorKind ==
    (maxWorkers <= 0 /\ pc # "start") =>
        /\ exitExc.kind = "PoolInitError"
        /\ executor = None

\* C11: opening the pool with maxWorkers <= 0 fails with the ValueError of
\* ProcessPoolExecutor, which leaves __aenter__ and main unchanged; no pool
\* is allocated and the scope's body does not run.
C11_OpenRejectsNonPositive ==
    (maxWorkers <= 0 /\ pc # "start") =>
        /\ pc = "crashed"
        /\ exitExc.kind = "ValueError"
        /\ executor = None
        /\ openCount = 0
        /\ shutdownCount = 0
        /\ \A i \in Idx : fetch[i] = "none"

\* C11 witness: main has tried to open a pool of no workers.
C11_Witness == maxWorkers <= 0 /\ pc = "crashed" /\ exitExc.ph = "open"

\* ceil(a / b) for b >= 1.
Ceil(a, b) == (a + b - 1) \div b

\* C12: in ticks, with every fetch lasting F = mock_fetch_delay and every
\* computation P = mock_analysis_time, a report for N >= 1 items from a pool
\* of W >= 1 workers has totalDuration >= F + ceil(N / W) * P.
C12_TimingLowerBound ==
    (report # NoReport /\ N >= 1 /\ maxWorkers >= 1) =>
        report.totalDuration >=
            mock_fetch_delay + Ceil(N, maxWorkers) * mock_analysis_time

\* C12 witness: a report for more items than workers, with fetches and
\* computations that take time, whose duration is the bound itself.
C12_Witness ==
    /\ report # NoReport
    /\ N > maxWorkers /\ maxWorkers >= 2
    /\ mock_fetch_delay >= 1 /\ mock_analysis_time >= 1
    /\ report.totalDuration =
           mock_fetch_delay + Ceil(N, maxWorkers) * mock_analysis_time

\* The duration of the fully sequential run: N * (F + P).
SequentialDuration == N * (mock_fetch_delay + mock_analysis_time)

\* C13 as stated: for N > 1, W >= 1 and any F >= 0, P >= 0, the hybrid
\* totalDuration is strictly less than N * (F + P).
C13_StrictSpeedup ==
    (report # NoReport /\ N > 1 /\ maxWorkers >= 1) =>
        report.totalDuration < SequentialDuration

\* C13: for N > 1 and W >= 1 the hybrid totalDuration is at most N * (F + P),
\* and strictly less if F > 0, or if W >= 2 and P > 0.
C13_SpeedupWhereWorkOverlaps ==
    (report # NoReport /\ N > 1 /\ maxWorkers >= 1) =>
        /\ report.totalDuration <= SequentialDuration
        /\ (mock_fetch_delay > 0 \/ (maxWorkers >= 2 /\ mock_analysis_time > 0))
               => report.totalDuration < SequentialDuration

\* C13 witness: a report for several items whose fetches take no time, from
\* a pool of several workers, in less than the sequential duration.
C13_Witness ==
    /\ report # NoReport
    /\ N > 1 /\ maxWorkers >= 2
    /\ mock_fetch_delay = 0 /\ mock_analysis_time > 0
    /\ report.totalDuration < SequentialDuration

\* research ended with the failure of one of its phases.
ResearchFailed ==
    /\ ResearchEnded
    /\ exitExc.kind \notin {"none", "CancelledError"}
    /\ exitExc.ph \in {"A", "B"}

\* C14: when research fails in Phase A or in Phase B, main catches the
\* failure and prints a diagnostic and no report, the pool is closed, and
\* main gets to its last line instead of ending with the exception.
C14_FailureCaughtByMain ==
    ResearchFailed =>
        /\ output = "diagnostic"
        /\ report = NoReport
        /\ pc \in {"exiting", "closing", "finished"}
        /\ pc = "finished" => /\ executor = None
                              /\ poolShutdown
                              /\ shutdownCount = 1
                              /\ closeErr = "none"

\* C14 witness: main at its last line after a computation of Phase B failed.
C14_Witness ==
    /\ pc = "finished"
    /\ exitExc.kind = "Exception" /\ exitExc.ph = "B"
    /\ output = "diagnostic"
    /\ executor = None

\* The words "AI engineering" stand next to each other in content c.
HasMarker(c) == \E k \in 1..(Len(c) - 1) : c[k] = "AI" /\ c[k + 1] = "engineering"

\* C15: the provided strategy's result for any RawItem has the item's key, a
\* summary that starts with "Summary of " and the key, and category
\* "Technology" exactly when the payload contains the marker, "General"
\* otherwise; so the result for an item of the mock fetch has category
\* "Technology".
C15_StrategyResult ==
    probeStage = "result" =>
        /\ probeOut.url = probeIn.url
        /\ Len(probeOut.summary) >= 2
        /\ SubSeq(probeOut.summary, 1, 2) = <<"Summary of ", probeIn.url>>
        /\ probeOut.category =
               IF HasMarker(probeIn.content) THEN "Technology" ELSE "General"
        /\ probeFromFetch => probeOut.category = "Technology"

\* C15 witness: a result of category "General" for a payload that holds both
\* words of the marker, but apart.
C15_Witness ==
    /\ probeStage = "result"
    /\ ~probeFromFetch
    /\ probeOut.category = "General"
    /\ \E k \in DOMAIN probeIn.content : probeIn.content[k] = "AI"
    /\ \E k \in DOMAIN probeIn.content : probeIn.content[k] = "engineering"

\* Work of Phase B exists for item i: its task, its submission or its job.
PhaseBWork(i) == proc[i] # "none" \/ submitCount[i] > 0 \/ jobState[i] # "none"

C17_NoRetryNoDuplicate ==
    /\ \A i \in Idx : fetchCount[i] <= 1 /\ submitCount[i] <= 1
    /\ \A i \in Idx : submitCount[i] = 1 => fetchCount[i] = 1
    /\ report # NoReport => \A i \in Idx : fetchCount[i] = 1 /\ submitCount[i] = 1

\* C17 witness: research has failed in Phase B on a list that names one key
\* at two positions; every position was fetched once and submitted once.
C17_Witness ==
    /\ ScopeLeft
    /\ exitExc.kind = "Exception" /\ exitExc.ph = "B"
    /\ N >= 2 /\ urls[N] = urls[1]
    /\ \A i \in Idx : fetchCount[i] = 1 /\ submitCount[i] = 1

\* C18: when operations of a batch fail, the failure research ends with is
\* the one that occurred first while the batch was awaited, whatever its
\* index, and no results of the siblings that completed are returned.
C18_FirstFailureInTime ==
    (ResearchEnded /\ exitExc.kind \notin {"none", "CancelledError"} /\ exitExc.idx # 0) =>
        /\ exitExc = firstFailure
        /\ report = NoReport
        /\ output # "report"

\* C18 witness: the fetches of positions 1 and 2 both failed, that of
\* position 2 first; research ended with it, and a sibling's fetch was done.
C18_Witness ==
    /\ ResearchEnded
    /\ exitExc = ChildExc("A", 2)
    /\ fetch[1] = "failed"
    /\ \E k \in Idx : fetch[k] = "done"
    /\ report = NoReport

\* C19: api_timeout is not enforced.  No research call fails or is cancelled
\* because of the time it took: an operation ends only by returning or by
\* raising its own exception, and a call whose operations all succeed
\* returns the full report however long it took.
C19_TimeoutNotEnforced ==
    /\ exitExc.kind \notin {"TimeoutError", "CancelledError"}
    /\ gather.state # "cancelled"
    /\ \A i \in Idx : fetch[i] # "cancelled" /\ proc[i] # "cancelled"
    /\ \A j \in JobIds : jobState[j] # "cancelled"
    /\ (ResearchEnded /\ exitExc = NoExc) =>
           /\ report # NoReport
           /\ Len(report.results) = N
           /\ report.totalDuration >= 0

\* C19 witness: a full report of a call that took longer than api_timeout.
C19_Witness ==
    /\ report # NoReport
    /\ N >= 2
    /\ Len(report.results) = N
    /\ report.totalDuration > api_timeout
    /\ mock_fetch_delay > api_timeout

\* C20: when research fails in Phase B because a computation failed, the
\* computations of its siblings, all submitted by then, are not cancelled:
\* each runs to its end, and the scope is left only when all have ended.
C20_SiblingsRunToCompletion ==
    (ResearchEnded /\ exitExc.kind = "Exception" /\ exitExc.ph = "B") =>
        /\ \A i \in Idx : jobState[i] \in {"queued", "running", "ok", "err"}
        /\ (ScopeLeft \/ executor = None) =>
               \A i \in Idx : jobState[i] \in {"ok", "err"}

\* C20 witness: the scope was left after a failure in Phase B that came
\* while more sibling computations were queued or running than the pool has
\* workers; all of them have ended.
C20_Witness ==
    /\ pc = "finished"
    /\ exitExc.kind = "Exception" /\ exitExc.ph = "B"
    /\ lateSubmits = 0
    /\ inflightAtClose > maxWorkers
    /\ \A i \in Idx : jobState[i] \in {"ok", "err"}

\* A fetch or a computation of the research call has failed.
SomeFailure ==
    \E i \in Idx : fetch[i] = "failed" \/ proc[i] = "failed" \/ jobState[i] = "err"

\* C21: under fair scheduling, once the pool is open with maxWorkers >= 1,
\* research eventually returns a report unless a fetch or a computation
\* fails, for every length of the input list; and no computation stays
\* queued forever.
C21_ResearchReturns ==
    /\ (pc = "entered" /\ maxWorkers >= 1) ~> (report # NoReport \/ SomeFailure)
    /\ \A j \in JobIds : (jobState[j] = "queued") ~> (jobState[j] # "queued")

\* C21 witness: a report for more items than the pool has workers, nothing
\* having failed.
C21_Witness ==
    /\ report # NoReport
    /\ maxWorkers >= 1 /\ N > maxWorkers
    /\ ~SomeFailure
    /\ \A i \in Idx : jobState[i] = "ok"

====
